---------------------------- MODULE Spec2Model ----------------------------
(***************************************************************************)
(* A model of DepthToSTL's two GUI helpers:                                *)
(*   - ArcBall.py      the arcball mouse-to-rotation mapper (ArcBallT),    *)
(*   - ScaleSlider.py  the float slider with a numeric scale above it.     *)
(*                                                                         *)
(* Real numbers of ArcBall.py are fixed-point integers: the real v is the  *)
(* integer round(v * SCALE), and every arithmetic operation rounds its     *)
(* result to that grid, as every float operation of the code rounds.       *)
(* Values of ScaleSlider.py are integers; Python's true division followed  *)
(* by round() or int() is computed exactly on the quotient.                *)
(***************************************************************************)
EXTENDS Integers, Sequences, FiniteSets, TLC

VARIABLES
    \* ---- ArcBallT instance (ArcBall.py) ----
    m_StVec,          \* self.m_StVec: start sphere point
    m_EnVec,          \* self.m_EnVec: end sphere point
    m_WindowWidth,    \* self.m_WindowWidth (pixels)
    m_WindowHeight,   \* self.m_WindowHeight (pixels)
    startRot,         \* self.startRot: <<>> while the attribute does not exist, else <<matrix>>
    aliased,          \* TRUE iff self.startRot is the very array object the caller holds
    \* ---- the caller of the ArcBallT ----
    rot,              \* the caller's rotation matrix (the array it passes to click)
    rot0,             \* the matrix initialRot(initQuat) returned at start-up
    initQuat,         \* the quaternion the caller gave initialRot
    result,           \* <<>> or <<matrix>>: what the last completed drag returned
    arcErr,           \* the exception the last ArcBallT call ended in, or "none"
    arcOp,            \* the last call made: "init", "setBounds", "click", "drag", "mutate"
    lastR,            \* the incremental rotation r computed by the last drag
    lastPerp,         \* the cross product perp computed by the last drag
    clickArg,         \* record of the arguments of the last click and the extent then
    dragArg,          \* <<>> before the first drag, else <<x, y>>: the pointer of the last drag
    nDrags,           \* number of drags since the last click (capped)
    chain,            \* record of the previous gesture when this one continues it
    nClicks,          \* number of click calls made (capped)
    nResizes,         \* number of setBounds calls made (capped)
    \* ---- ScaleSlider instance (ScaleSlider.py) ----
    minv,             \* self.minv
    maxv,             \* self.maxv
    interval,         \* self.interval
    tickInterval,     \* self.tickInterval
    qMin,             \* self.slider.minimum()
    qMax,             \* self.slider.maximum()
    qValue,           \* self.slider.value()
    qTick,            \* self.slider.tickInterval()
    scale,            \* self.scale: record minv, maxv, tickInterval of the Scale widget
    slErr,            \* the exception the last ScaleSlider call ended in, or "none"
    paintErr,         \* the exception the last Scale.paintEvent ended in, or "none"
    slOp,             \* the last ScaleSlider call: <<name>>, or <<name, v>> for setInterval and setValue
    ret,              \* <<>> or <<v>>: what value() returned, when it was the last call
    echo,             \* <<>> or <<v>>: v when the last call, value(), directly followed setValue(v)
    nCalls            \* number of ScaleSlider calls made (capped)

arcVars == << m_StVec, m_EnVec, m_WindowWidth, m_WindowHeight, startRot, aliased,
              rot, rot0, initQuat, result, arcErr, arcOp, lastR, lastPerp,
              clickArg, dragArg, nDrags, chain, nClicks, nResizes >>

sliderVars == << minv, maxv, interval, tickInterval, qMin, qMax, qValue, qTick,
                 scale, slErr, paintErr, slOp, ret, echo, nCalls >>

vars == << arcVars, sliderVars >>

---------------------------------------------------------------------------
(* Bounds of the model *)

\* at most this many click calls (gestures) in a behaviour
MaxClicks == 2

\* at most this many setBounds calls (resizes of the window) in a behaviour
MaxResizes == 1

\* number of fractional bits of the fixed-point grid
SCALE == 2^12

\* "within tolerance" for a matrix entry after chained roundings: a sixty-fourth
TOL == SCALE \div 64

\* "within tolerance" for the length of a normalised vector
UNIT_TOL == SCALE \div 1024

---------------------------------------------------------------------------
(* Fixed-point arithmetic *)

Abs(a) == IF a < 0 THEN -a ELSE a

Min2(a, b) == IF a < b THEN a ELSE b

Max2(a, b) == IF a < b THEN b ELSE a

\* a / b rounded to the nearest integer (b # 0)
RDiv(a, b) == IF b < 0 THEN ((-a) + ((-b) \div 2)) \div (-b)
                       ELSE (a + (b \div 2)) \div b

\* float multiplication and division on the grid
FMul(a, b) == RDiv(a * b, SCALE)

FDiv(a, b) == RDiv(a * SCALE, b)

RECURSIVE Newton(_, _)
Newton(n, x) == LET y == (x + (n \div x)) \div 2
                IN  IF y >= x THEN x ELSE Newton(n, y)

\* floor of the square root of the natural number n
ISqrt(n) == IF n < 2 THEN n ELSE Newton(n, Min2(n, 2^16))

\* math.sqrt on the grid
FSqrt(a) == ISqrt(a * SCALE)

\* an integer (a pixel count or coordinate) as a grid value
Fix(k) == k * SCALE

---------------------------------------------------------------------------
(* ArcBall.py: vector / matrix primitives *)

\* EPSILON = 1.0e-5, held as its reciprocal
EpsilonInv == 100000

USE_GAVIN_BELL_EXTENSION == TRUE

vector3f(x, y, z) == << x, y, z >>

quat4f(x, y, z, w) == << x, y, z, w >>

Identity == << << SCALE, 0, 0, 0 >>,
              << 0, SCALE, 0, 0 >>,
              << 0, 0, SCALE, 0 >>,
              << 0, 0, 0, SCALE >> >>

\* np.dot of two vectors of length 3 and of length 4
Dot3(a, b) == FMul(a[1], b[1]) + FMul(a[2], b[2]) + FMul(a[3], b[3])

Dot4(a, b) == FMul(a[1], b[1]) + FMul(a[2], b[2]) + FMul(a[3], b[3]) + FMul(a[4], b[4])

\* np.cross
Cross(a, b) == << FMul(a[2], b[3]) - FMul(a[3], b[2]),
                  FMul(a[3], b[1]) - FMul(a[1], b[3]),
                  FMul(a[1], b[2]) - FMul(a[2], b[1]) >>

\* np.linalg.norm of a 3-vector
mag(v) == FSqrt(Dot3(v, v))

normalise(v) == LET m == mag(v)
                IN  << FDiv(v[1], m), FDiv(v[2], m), FDiv(v[3], m) >>

\* np.dot of two 4x4 matrices
MatEntry(a, b, i, j) == FMul(a[i][1], b[1][j]) + FMul(a[i][2], b[2][j])
                      + FMul(a[i][3], b[3][j]) + FMul(a[i][4], b[4][j])

MatRow(a, b, i) == << MatEntry(a, b, i, 1), MatEntry(a, b, i, 2),
                      MatEntry(a, b, i, 3), MatEntry(a, b, i, 4) >>

MatMul(a, b) == << MatRow(a, b, 1), MatRow(a, b, 2), MatRow(a, b, 3), MatRow(a, b, 4) >>

\* a plausible slip: the degenerate quaternion gives a zero rotation block
QuatZeroBlock(q) ==
    LET n  == Dot4(q, q)
        s  == IF n > 0 THEN FDiv(Fix(2), n) ELSE 0
        d  == IF n > 0 THEN SCALE ELSE 0
        xs == FMul(q[1], s)   ys == FMul(q[2], s)   zs == FMul(q[3], s)
        wx == FMul(q[4], xs)  wy == FMul(q[4], ys)  wz == FMul(q[4], zs)
        xx == FMul(q[1], xs)  xy == FMul(q[1], ys)  xz == FMul(q[1], zs)
        yy == FMul(q[2], ys)  yz == FMul(q[2], zs)  zz == FMul(q[3], zs)
    IN  << << d - (yy + zz), xy + wz,       xz - wy,       0 >>,
           << xy - wz,       d - (xx + zz), yz + wx,       0 >>,
           << xz + wy,       yz - wx,       d - (xx + yy), 0 >>,
           << 0,             0,             0,             SCALE >> >>

matrix4fSetRotationFromQuat4f(q) ==
    LET n  == Dot4(q, q)
        s  == IF n > 0 THEN FDiv(Fix(2), n) ELSE 0
        xs == FMul(q[1], s)   ys == FMul(q[2], s)   zs == FMul(q[3], s)
        wx == FMul(q[4], xs)  wy == FMul(q[4], ys)  wz == FMul(q[4], zs)
        xx == FMul(q[1], xs)  xy == FMul(q[1], ys)  xz == FMul(q[1], zs)
        yy == FMul(q[2], ys)  yz == FMul(q[2], zs)  zz == FMul(q[3], zs)
    IN  << << SCALE - (yy + zz), xy + wz,           xz - wy,           0 >>,
           << xy - wz,           SCALE - (xx + zz), yz + wx,           0 >>,
           << xz + wy,           yz - wx,           SCALE - (xx + yy), 0 >>,
           << 0,                 0,                 0,                 SCALE >> >>

\* Quaternion initial rotation choices
initialViewUnrotated == quat4f(0, 0, 0, 0)

initialViewY == quat4f(-FSqrt(Fix(2)), 0, 0, FSqrt(Fix(2)))

initialRot(q) == matrix4fSetRotationFromQuat4f(q)

---------------------------------------------------------------------------
(* ArcBallT._mapToSphere *)

\* a plausible slip: the result is not normalised
MapNoNormalise(w, h, x, y) ==
    LET sx == Fix(x) - FMul(Fix(w) - Fix(1), SCALE \div 2)
        sy == FMul(Fix(h) - Fix(1), SCALE \div 2) - Fix(y)
        radius  == FMul(SCALE \div 2, FDiv(Min2(Fix(w), Fix(h)), Fix(2)))
        length2 == FMul(sx, sx) + FMul(sy, sy)
    IN  IF FSqrt(length2) < FDiv(radius, FSqrt(Fix(2)))
        THEN vector3f(sx, sy, FSqrt(FMul(radius, radius) - length2))
        ELSE vector3f(sx, sy, FDiv(FMul(radius, radius), FMul(Fix(2), FSqrt(length2))))

mapToSphere(w, h, x, y) ==
    LET cx == FMul(Fix(w) - Fix(1), SCALE \div 2)
        cy == FMul(Fix(h) - Fix(1), SCALE \div 2)
        sx == Fix(x) - cx
        sy == cy - Fix(y)
        minDim  == FDiv(Min2(Fix(w), Fix(h)), Fix(2))
        length2 == FMul(sx, sx) + FMul(sy, sy)
        length  == FSqrt(length2)
        spherePos ==
            IF USE_GAVIN_BELL_EXTENSION
            THEN LET radius  == FMul(SCALE \div 2, minDim)
                     radius2 == FMul(radius, radius)
                 IN  IF length < FDiv(radius, FSqrt(Fix(2)))
                     THEN vector3f(sx, sy, FSqrt(radius2 - length2))
                     ELSE vector3f(sx, sy, FDiv(radius2, FMul(Fix(2), length)))
            ELSE LET radius  == FMul(RDiv(7 * SCALE, 10), minDim)
                     radius2 == FMul(radius, radius)
                 IN  IF length < radius
                     THEN vector3f(sx, sy, FSqrt(radius2 - length2))
                     ELSE vector3f(sx, sy, 0)
    IN  normalise(spherePos)

---------------------------------------------------------------------------
(* ArcBallT.drag, as pure functions of the state it reads *)

\* lines 176-189: the quaternion of the rotation from st to en
dragQuat(st, en) ==
    LET perp == Cross(st, en)
    IN  IF mag(perp) * EpsilonInv > SCALE
        THEN quat4f(perp[1], perp[2], perp[3], Dot3(st, en))
        ELSE quat4f(0, 0, 0, 0)

\* a plausible slip: the operands of the final product the other way round
dragProductSwapped(sr, r) == MatMul(r, sr)

\* line 194: np.dot(self.startRot, r)
dragProduct(sr, r) == MatMul(sr, r)

---------------------------------------------------------------------------
(* The inputs the caller draws from *)

\* viewport extents (width, height) given to setBounds
Extents == { << 9, 9 >>, << 12, 9 >> }

\* pointer positions (x, y) given to click and drag
Pointers == { << 4, 4 >>, << 5, 3 >>, << 1, 7 >> }

\* quaternions given to initialRot
InitQuats == { initialViewUnrotated, initialViewY }

NoClick == [ valid |-> FALSE, stable |-> FALSE, rot |-> Identity,
             x |-> 0, y |-> 0 ]

NoChain == [ ok |-> FALSE, rot |-> Identity, x |-> 0, y |-> 0 ]

---------------------------------------------------------------------------
(* ArcBallT: construction and operations *)

\* ArcBallT.__init__, after the caller's rot = initialRot(q)
ArcInitWith(q) ==
    /\ m_StVec = vector3f(0, 0, 0)
    /\ m_EnVec = vector3f(0, 0, 0)
    /\ m_WindowWidth = 1
    /\ m_WindowHeight = 1
    /\ startRot = << >>
    /\ aliased = FALSE
    /\ initQuat = q
    /\ rot0 = initialRot(q)
    /\ rot = initialRot(q)
    /\ result = << >>
    /\ arcErr = "none"
    /\ arcOp = "init"
    /\ lastR = Identity
    /\ lastPerp = vector3f(0, 0, 0)
    /\ clickArg = NoClick
    /\ dragArg = << >>
    /\ nDrags = 0
    /\ chain = NoChain
    /\ nClicks = 0
    /\ nResizes = 0

\* ArcBallT.setBounds(newWidth, newHeight)
SetBounds(w, h) ==
    /\ nResizes < MaxResizes
    /\ nResizes' = nResizes + 1
    /\ m_WindowWidth' = w
    /\ m_WindowHeight' = h
    /\ arcErr' = "none"
    /\ arcOp' = "setBounds"
    /\ clickArg' = [clickArg EXCEPT !.stable = FALSE]
    /\ chain' = NoChain
    /\ UNCHANGED << m_StVec, m_EnVec, startRot, aliased, rot, rot0, initQuat,
                    result, lastR, lastPerp, dragArg, nDrags, nClicks >>
    /\ UNCHANGED sliderVars

\* whether click(rot, x, y) continues the gesture just made: the matrix given is
\* the one the last drag returned and the pointer is where that drag ended
Continues(x, y) ==
    /\ clickArg.valid
    /\ clickArg.stable
    /\ arcOp \in { "drag", "mutate" }
    /\ arcErr = "none"
    /\ nDrags > 0
    /\ result = << rot >>
    /\ dragArg = << x, y >>

\* a plausible slip: click keeps a reference to the caller's array
ClickAlias(x, y) ==
    /\ nClicks < MaxClicks
    /\ startRot' = << rot >>
    /\ aliased' = TRUE
    /\ m_StVec' = mapToSphere(m_WindowWidth, m_WindowHeight, x, y)
    /\ arcErr' = "none"
    /\ arcOp' = "click"
    /\ chain' = IF Continues(x, y)
                THEN [ ok |-> TRUE, rot |-> clickArg.rot, x |-> clickArg.x, y |-> clickArg.y ]
                ELSE NoChain
    /\ clickArg' = [ valid |-> TRUE, stable |-> TRUE, rot |-> rot, x |-> x, y |-> y ]
    /\ nDrags' = 0
    /\ nClicks' = nClicks + 1
    /\ UNCHANGED << m_EnVec, m_WindowWidth, m_WindowHeight, rot, rot0, initQuat,
                    result, lastR, lastPerp, dragArg, nResizes >>
    /\ UNCHANGED sliderVars

\* a plausible slip: click forgets to recompute the start sphere point
ClickStale(x, y) ==
    /\ nClicks < MaxClicks
    /\ startRot' = << rot >>
    /\ aliased' = FALSE
    /\ m_StVec' = IF clickArg.valid THEN m_StVec
                  ELSE mapToSphere(m_WindowWidth, m_WindowHeight, x, y)
    /\ arcErr' = "none"
    /\ arcOp' = "click"
    /\ chain' = IF Continues(x, y)
                THEN [ ok |-> TRUE, rot |-> clickArg.rot, x |-> clickArg.x, y |-> clickArg.y ]
                ELSE NoChain
    /\ clickArg' = [ valid |-> TRUE, stable |-> TRUE, rot |-> rot, x |-> x, y |-> y ]
    /\ nDrags' = 0
    /\ nClicks' = nClicks + 1
    /\ UNCHANGED << m_EnVec, m_WindowWidth, m_WindowHeight, rot, rot0, initQuat,
                    result, lastR, lastPerp, dragArg, nResizes >>
    /\ UNCHANGED sliderVars

\* ArcBallT.click(rot, x, y): the caller passes its matrix rot
Click(x, y) ==
    /\ nClicks < MaxClicks
    /\ startRot' = << rot >>                \* np.copy(startRot): a fresh array
    /\ aliased' = FALSE
    /\ m_StVec' = mapToSphere(m_WindowWidth, m_WindowHeight, x, y)
    /\ arcErr' = "none"
    /\ arcOp' = "click"
    /\ chain' = IF Continues(x, y)
                THEN [ ok |-> TRUE, rot |-> clickArg.rot, x |-> clickArg.x, y |-> clickArg.y ]
                ELSE NoChain
    /\ clickArg' = [ valid |-> TRUE, stable |-> TRUE, rot |-> rot, x |-> x, y |-> y ]
    /\ nDrags' = 0
    /\ nClicks' = nClicks + 1
    /\ UNCHANGED << m_EnVec, m_WindowWidth, m_WindowHeight, rot, rot0, initQuat,
                    result, lastR, lastPerp, dragArg, nResizes >>
    /\ UNCHANGED sliderVars

\* a plausible slip: drag moves the start point along (an incremental arcball)
DragIncremental(x, y) ==
    LET en == mapToSphere(m_WindowWidth, m_WindowHeight, x, y)
        r  == matrix4fSetRotationFromQuat4f(dragQuat(m_StVec, en))
    IN  /\ m_EnVec' = en
        /\ m_StVec' = en
        /\ lastPerp' = Cross(m_StVec, en)
        /\ lastR' = r
        /\ arcOp' = "drag"
        /\ dragArg' = << x, y >>
        /\ nDrags' = Min2(nDrags + 1, 2)
        /\ IF startRot = << >>
           THEN /\ arcErr' = "AttributeError"
                /\ UNCHANGED << result, rot, aliased >>
           ELSE /\ arcErr' = "none"
                /\ result' = << dragProduct(startRot[1], r) >>
                /\ rot' = dragProduct(startRot[1], r)      \* the caller's name now
                /\ aliased' = FALSE                        \* holds the new array
        /\ UNCHANGED << m_WindowWidth, m_WindowHeight, startRot,
                        rot0, initQuat, clickArg, chain, nClicks, nResizes >>
        /\ UNCHANGED sliderVars

\* ArcBallT.drag(x, y), called as documented: rot = a.drag(x, y)
Drag(x, y) ==
    LET en == mapToSphere(m_WindowWidth, m_WindowHeight, x, y)
        r  == matrix4fSetRotationFromQuat4f(dragQuat(m_StVec, en))
    IN  /\ m_EnVec' = en
        /\ lastPerp' = Cross(m_StVec, en)
        /\ lastR' = r
        /\ arcOp' = "drag"
        /\ dragArg' = << x, y >>
        /\ nDrags' = Min2(nDrags + 1, 2)
        /\ IF startRot = << >>
           THEN \* self.startRot does not exist: line 194 raises
                /\ arcErr' = "AttributeError"
                /\ UNCHANGED << result, rot, aliased >>
           ELSE /\ arcErr' = "none"
                /\ result' = << dragProduct(startRot[1], r) >>
                /\ rot' = dragProduct(startRot[1], r)      \* the caller's name now
                /\ aliased' = FALSE                        \* holds the new array
        /\ UNCHANGED << m_StVec, m_WindowWidth, m_WindowHeight, startRot,
                        rot0, initQuat, clickArg, chain, nClicks, nResizes >>
        /\ UNCHANGED sliderVars

\* the matrix the caller may write into its array: a canned initial view
CallerMatrices == { initialRot(initialViewY) }

\* the caller overwrites its own array in place
CallerMutate(m) ==
    /\ startRot # << >>
    /\ m # rot
    /\ rot' = m
    /\ startRot' = IF aliased /\ startRot # << >> THEN << m >> ELSE startRot
    /\ arcOp' = "mutate"
    /\ UNCHANGED << m_StVec, m_EnVec, m_WindowWidth, m_WindowHeight, aliased,
                    rot0, initQuat, result, arcErr, lastR, lastPerp, clickArg,
                    dragArg, nDrags, chain, nClicks, nResizes >>
    /\ UNCHANGED sliderVars

---------------------------------------------------------------------------
(* ScaleSlider.py: Python's arithmetic on the integers the model draws *)

Sign(a) == IF a < 0 THEN -1 ELSE 1

\* int(a / b): the quotient truncated towards zero (b # 0)
PyInt(a, b) == Sign(a) * Sign(b) * (Abs(a) \div Abs(b))

\* a plausible slip: truncation where the code rounds
PyRoundTrunc(a, b) == Sign(a) * Sign(b) * (Abs(a) \div Abs(b))

\* round(a / b): the quotient rounded to the nearest integer, a tie to the even one (b # 0)
PyRound(a, b) ==
    LET q == Abs(a) \div Abs(b)
        m == Abs(a) % Abs(b)
        n == IF 2 * m < Abs(b) THEN q
             ELSE IF 2 * m > Abs(b) THEN q + 1
             ELSE IF q % 2 = 0 THEN q ELSE q + 1
    IN  Sign(a) * Sign(b) * n

\* QAbstractSlider's bound(): a value clamped to [lo, hi]
Clamp(v, lo, hi) == Max2(lo, Min2(hi, v))

\* Scale.paintEvent on the Scale's fields: the exception it ends in, or "none"
PaintOutcome(sc) ==
    IF sc.tickInterval < 0 THEN "none"                       \* divs = 1
    ELSE IF sc.tickInterval = 0 THEN "ZeroDivisionError"     \* line 54
    ELSE IF PyRound(sc.maxv - sc.minv, sc.tickInterval) = 0
         THEN "ZeroDivisionError"                            \* line 56, i = 0
         ELSE "none"

\* Scale.setScale(minv, maxv, tickInterval): stores, then repaint(), which runs
\* paintEvent at once on a visible widget (a hidden one runs the same
\* paintEvent on the same fields when it is shown)
SetScale(mn, mx, tk) ==
    /\ scale' = [ minv |-> mn, maxv |-> mx, tickInterval |-> tk ]
    /\ paintErr' = PaintOutcome([ minv |-> mn, maxv |-> mx, tickInterval |-> tk ])

\* ScaleSlider._range_adjusted on the fields (mn, mx, iv, tk) just stored
RangeAdjusted(mn, mx, iv, tk) ==
    LET r == mx - mn
    IN  IF iv = 0
        THEN \* line 149 raises before the inner slider is touched
             /\ slErr' = "ZeroDivisionError"
             /\ UNCHANGED << qMin, qMax, qValue, qTick, scale, paintErr >>
        ELSE LET number_of_steps == PyInt(r, iv)
                 newMin == Min2(qMin, number_of_steps)     \* QSlider.setMaximum
                 newMax == Max2(newMin, number_of_steps)
             IN  /\ qMin' = newMin
                 /\ qMax' = newMax
                 /\ qValue' = Clamp(qValue, newMin, newMax)
                 /\ IF tk < 0
                    THEN /\ qTick' = Max2(0, -1)            \* QSlider.setTickInterval
                         /\ slErr' = "none"
                         /\ SetScale(mn, mx, tk)
                    ELSE IF r = 0
                    THEN \* line 154 raises: tickInterval / r
                         /\ slErr' = "ZeroDivisionError"
                         /\ UNCHANGED << qTick, scale, paintErr >>
                    ELSE \* int(tickInterval / r * number_of_steps): on the values
                         \* drawn below the float product truncates to the
                         \* integer the exact quotient truncates to
                         /\ qTick' = Max2(0, PyInt(tk * number_of_steps, r))
                         /\ slErr' = "none"
                         /\ SetScale(mn, mx, tk)

---------------------------------------------------------------------------
(* ScaleSlider: construction and operations *)

\* largest minimum, maximum and value the caller gives
MaxValue == 3

\* at most this many ScaleSlider calls in a behaviour
MaxCalls == 4

Values == 0 .. MaxValue

\* values given to setValue, some outside every range
SetValues == (0 - 1) .. (MaxValue + 1)

\* step intervals given to setInterval
Intervals == { 0 - 1, 0, 1, 2 }

\* tick intervals given to setTickInterval
TickIntervals == { 0 - 1, 0, 5 }

\* QSlider(), Scale.__init__ and ScaleSlider.__init__ with its _range_adjusted()
SliderInit ==
    /\ minv = 0
    /\ maxv = 99
    /\ interval = 1
    /\ tickInterval = 0 - 1
    /\ qMin = 0
    /\ qMax = 99
    /\ qValue = 0
    /\ qTick = 0
    /\ scale = [ minv |-> 0, maxv |-> 99, tickInterval |-> 0 - 1 ]
    /\ slErr = "none"
    /\ paintErr = "none"
    /\ slOp = << "init" >>
    /\ ret = << >>
    /\ echo = << >>
    /\ nCalls = 0

\* ScaleSlider.setMinimum(value)
SetMinimum(v) ==
    /\ minv' = v
    /\ RangeAdjusted(v, maxv, interval, tickInterval)
    /\ slOp' = << "setMinimum" >>
    /\ nCalls < MaxCalls
    /\ nCalls' = nCalls + 1
    /\ ret' = << >>
    /\ echo' = << >>
    /\ UNCHANGED << maxv, interval, tickInterval >>
    /\ UNCHANGED arcVars

\* ScaleSlider.setMaximum(value)
SetMaximum(v) ==
    /\ maxv' = v
    /\ RangeAdjusted(minv, v, interval, tickInterval)
    /\ slOp' = << "setMaximum" >>
    /\ nCalls < MaxCalls
    /\ nCalls' = nCalls + 1
    /\ ret' = << >>
    /\ echo' = << >>
    /\ UNCHANGED << minv, interval, tickInterval >>
    /\ UNCHANGED arcVars

\* ScaleSlider.setRange(minv, maxv)
SetRange(mn, mx) ==
    /\ minv' = mn
    /\ maxv' = mx
    /\ RangeAdjusted(mn, mx, interval, tickInterval)
    /\ slOp' = << "setRange" >>
    /\ nCalls < MaxCalls
    /\ nCalls' = nCalls + 1
    /\ ret' = << >>
    /\ echo' = << >>
    /\ UNCHANGED << interval, tickInterval >>
    /\ UNCHANGED arcVars

\* a plausible slip: the interval is stored and used before it is checked
SetIntervalUnchecked(v) ==
    /\ interval' = v
    /\ RangeAdjusted(minv, maxv, v, tickInterval)
    /\ slOp' = << "setInterval", v >>
    /\ nCalls < MaxCalls
    /\ nCalls' = nCalls + 1
    /\ ret' = << >>
    /\ echo' = << >>
    /\ UNCHANGED << minv, maxv, tickInterval >>
    /\ UNCHANGED arcVars

\* ScaleSlider.setInterval(value)
SetInterval(v) ==
    /\ IF v = 0
       THEN \* "if not value: raise ValueError"
            /\ slErr' = "ValueError"
            /\ UNCHANGED << interval, qMin, qMax, qValue, qTick, scale, paintErr >>
       ELSE /\ interval' = v
            /\ RangeAdjusted(minv, maxv, v, tickInterval)
    /\ slOp' = << "setInterval", v >>
    /\ nCalls < MaxCalls
    /\ nCalls' = nCalls + 1
    /\ ret' = << >>
    /\ echo' = << >>
    /\ UNCHANGED << minv, maxv, tickInterval >>
    /\ UNCHANGED arcVars

\* ScaleSlider.setTickInterval(value)
SetTickInterval(v) ==
    /\ tickInterval' = v
    /\ RangeAdjusted(minv, maxv, interval, v)
    /\ slOp' = << "setTickInterval" >>
    /\ nCalls < MaxCalls
    /\ nCalls' = nCalls + 1
    /\ ret' = << >>
    /\ echo' = << >>
    /\ UNCHANGED << minv, maxv, interval >>
    /\ UNCHANGED arcVars

\* a plausible slip: the index is truncated, not rounded
SetValueTrunc(v) ==
    /\ qValue' = Clamp(PyRoundTrunc(v - minv, interval), qMin, qMax)
    /\ slErr' = "none"
    /\ slOp' = << "setValue", v >>
    /\ nCalls < MaxCalls
    /\ nCalls' = nCalls + 1
    /\ ret' = << >>
    /\ echo' = << >>
    /\ UNCHANGED << minv, maxv, interval, tickInterval, qMin, qMax, qTick,
                    scale, paintErr >>
    /\ UNCHANGED arcVars

\* ScaleSlider.setValue(value): QSlider.setValue bounds the index to its range
SetValue(v) ==
    /\ qValue' = Clamp(PyRound(v - minv, interval), qMin, qMax)
    /\ slErr' = "none"
    /\ slOp' = << "setValue", v >>
    /\ nCalls < MaxCalls
    /\ nCalls' = nCalls + 1
    /\ ret' = << >>
    /\ echo' = << >>
    /\ UNCHANGED << minv, maxv, interval, tickInterval, qMin, qMax, qTick,
                    scale, paintErr >>
    /\ UNCHANGED arcVars

\* ScaleSlider.value()
Value ==
    /\ ret' = << qValue * interval + minv >>
    /\ echo' = IF slOp[1] = "setValue" THEN << slOp[2] >> ELSE << >>
    /\ slErr' = "none"
    /\ slOp' = << "value" >>
    /\ nCalls < MaxCalls
    /\ nCalls' = nCalls + 1
    /\ UNCHANGED << minv, maxv, interval, tickInterval, qMin, qMax, qValue, qTick,
                    scale, paintErr >>
    /\ UNCHANGED arcVars

---------------------------------------------------------------------------
(* Specifications *)

\* the arcball mapper driven by its caller; the slider stays as constructed
ArcInit == (\E q \in InitQuats : ArcInitWith(q)) /\ SliderInit

ArcNext ==
    \/ \E e \in Extents : SetBounds(e[1], e[2])
    \/ \E p \in Pointers : Click(p[1], p[2])
    \/ \E p \in Pointers : Drag(p[1], p[2])
    \/ \E m \in CallerMatrices : CallerMutate(m)

ArcSpec == ArcInit /\ [][ArcNext]_vars

\* the slider driven by its caller; the mapper stays as constructed
SliderInit0 == ArcInitWith(initialViewUnrotated) /\ SliderInit

SliderNext ==
    \/ \E v \in Values : SetMinimum(v)
    \/ \E v \in Values : SetMaximum(v)
    \/ \E a \in Values : \E b \in Values : SetRange(a, b)
    \/ \E v \in Intervals : SetInterval(v)
    \/ \E v \in TickIntervals : SetTickInterval(v)
    \/ \E v \in SetValues : SetValue(v)
    \/ Value

SliderSpec == SliderInit0 /\ [][SliderNext]_vars

---------------------------------------------------------------------------
(* Helpers of the properties *)

\* the sphere point of a pointer under the current extent
Here(x, y) == mapToSphere(m_WindowWidth, m_WindowHeight, x, y)

\* what a single click(R, x0, y0); drag(x, y) returns under the current extent
SingleGesture(R, x0, y0, x, y) ==
    dragProduct(R, matrix4fSetRotationFromQuat4f(dragQuat(Here(x0, y0), Here(x, y))))

\* two matrices equal within tolerance
Close(a, b) == \A i \in 1..4 : \A j \in 1..4 : Abs(a[i][j] - b[i][j]) <= TOL

IsZero(v) == v = vector3f(0, 0, 0)

IsUnit(v) == Abs(mag(v) - SCALE) <= UNIT_TOL

\* the cross product of the last drag was within EPSILON
PerpNegligible == ~(mag(lastPerp) * EpsilonInv > SCALE)

\* the last call was a drag of a gesture begun by click, with no setBounds since
InGesture == arcOp = "drag" /\ clickArg.valid /\ clickArg.stable

---------------------------------------------------------------------------
(* Properties of the arcball mapper (ArcSpec) *)

\* C1: after click(R, x0, y0), a drag to the same (x0, y0), with no setBounds
\* in between, returns a matrix equal to R.
C1_ZeroDragIdentity ==
    (InGesture /\ dragArg = << clickArg.x, clickArg.y >>)
        => (arcErr = "none" /\ result = << clickArg.rot >>)

C1_Witness ==
    /\ InGesture
    /\ dragArg = << clickArg.x, clickArg.y >>
    /\ clickArg.rot # Identity
    /\ nClicks = 2
    /\ nResizes > 0

\* C2: click keeps a private copy of the caller's matrix: the stored start
\* rotation stays the matrix given to click whatever the caller later writes
\* into its own, click leaves the caller's matrix as it was, and every drag
\* of the gesture returns that matrix times the drag's increment.
C2_PrivateCopy ==
    /\ clickArg.valid => startRot = << clickArg.rot >>
    /\ arcOp = "click" => rot = clickArg.rot
    /\ (arcOp = "drag" /\ clickArg.valid)
           => result = << dragProduct(clickArg.rot, lastR) >>

C2_Witness ==
    /\ arcOp = "mutate"
    /\ clickArg.valid
    /\ rot # clickArg.rot
    /\ startRot = << clickArg.rot >>
    /\ nDrags > 0

\* C5: click(R, A); R1 = drag(B); click(R1, B); R2 = drag(C) gives R2 equal,
\* within tolerance, to what click(R, A); drag(C) gives.
C5_ChainComposition ==
    (InGesture /\ chain.ok)
        => /\ arcErr = "none"
           /\ Close(result[1],
                    SingleGesture(chain.rot, chain.x, chain.y, dragArg[1], dragArg[2]))

C5_Witness ==
    /\ InGesture
    /\ chain.ok
    /\ chain.rot # Identity
    /\ << chain.x, chain.y >> # << clickArg.x, clickArg.y >>
    /\ << clickArg.x, clickArg.y >> # dragArg
    /\ << chain.x, chain.y >> # dragArg
    /\ nResizes > 0

\* C6: the zero quaternion converts to the identity matrix, so initialRot of
\* initialViewUnrotated is the identity and a drag whose cross product is
\* within EPSILON applies the identity as its increment.
C6_ZeroQuatIdentity ==
    /\ matrix4fSetRotationFromQuat4f(quat4f(0, 0, 0, 0)) = Identity
    /\ initQuat = initialViewUnrotated => rot0 = Identity
    /\ (arcOp = "drag" /\ PerpNegligible) => lastR = Identity

C6_Witness ==
    /\ InGesture
    /\ PerpNegligible
    /\ initQuat = initialViewUnrotated
    /\ ~IsZero(m_StVec)

\* C7: a drag on a mapper that was never clicked completes and returns a matrix.
C7_DragBeforeClickCompletes ==
    (arcOp = "drag" /\ ~clickArg.valid) => (arcErr = "none" /\ result # << >>)

\* C9: the start and end sphere points are each of unit length or the zero
\* vector, and zero only while click (for the start point) or drag (for the
\* end point) has not been called.
C9_SpherePointsUnit ==
    /\ IsUnit(m_StVec) \/ IsZero(m_StVec)
    /\ IsUnit(m_EnVec) \/ IsZero(m_EnVec)
    /\ IsZero(m_StVec) => ~clickArg.valid
    /\ IsZero(m_EnVec) => dragArg = << >>

C9_Witness ==
    /\ clickArg.valid
    /\ dragArg # << >>
    /\ nResizes > 0
    /\ m_StVec # m_EnVec
    /\ IsUnit(m_StVec)
    /\ IsUnit(m_EnVec)

\* C10: within one gesture the matrix the last drag(x, y) returned is the one
\* a single drag(x, y) right after the click returns, however many drags
\* came before it.
C10_DragHistoryIndependent ==
    InGesture
        => /\ arcErr = "none"
           /\ result = << SingleGesture(clickArg.rot, clickArg.x, clickArg.y,
                                        dragArg[1], dragArg[2]) >>

C10_Witness ==
    /\ InGesture
    /\ nDrags = 2
    /\ dragArg # << clickArg.x, clickArg.y >>
    /\ clickArg.rot # Identity

---------------------------------------------------------------------------
(* Properties of the slider (SliderSpec) *)

\* the index setValue(v) computes before the inner slider bounds it
IndexOf(v) == PyRound(v - minv, interval)

\* C3: setInterval(0) ends in ValueError, not in the division it guards, and
\* leaves the stored interval, minimum, maximum, the inner slider and the
\* scale as they were.
C3_SetIntervalZeroRejected ==
    [][ (slOp' = << "setInterval", 0 >> /\ nCalls' # nCalls)
            => /\ slErr' = "ValueError"
               /\ UNCHANGED << interval, minv, maxv, tickInterval,
                               qMin, qMax, qValue, qTick, scale >> ]_vars

C3_Witness ==
    /\ slOp = << "setInterval", 0 >>
    /\ slErr = "ValueError"
    /\ interval = 2
    /\ tickInterval > 0
    /\ minv > 0

\* C4 as stated: setValue(v) then value() returns
\* minimum + round((v - minimum) / interval) * interval, for every v.
C4_RoundsEveryValue ==
    echo # << >> => ret = << minv + IndexOf(echo[1]) * interval >>

\* C4 as the code has it: the rounded index is bounded to the inner slider's
\* range before it is stored, so value() returns the rounded v only when that
\* index lies in the range, and the nearest end of the range otherwise.
C4_RoundsWithinRange ==
    echo # << >>
        => /\ ret = << minv + Clamp(IndexOf(echo[1]), qMin, qMax) * interval >>
           /\ (qMin <= IndexOf(echo[1]) /\ IndexOf(echo[1]) <= qMax)
                  => ret = << minv + IndexOf(echo[1]) * interval >>

C4_Witness ==
    /\ echo # << >>
    /\ interval = 2
    /\ minv > 0
    /\ qMin <= IndexOf(echo[1])
    /\ IndexOf(echo[1]) <= qMax
    /\ ret # echo

\* C8: apart from setInterval(0), no ScaleSlider call and no repaint of the
\* scale ends in an error.
C8_AllOperationsTotal ==
    /\ slErr = "none" \/ slOp = << "setInterval", 0 >>
    /\ paintErr = "none"

===========================================================================
